---- MODULE Spec2Model ----
(***************************************************************************)
(* The in-memory session store of the visual chat assistant                *)
(* (src/src/conversation_manager.py) together with the callers that drive  *)
(* it (src/main.py, src/src/chat_handler.py, src/src/event_recognizer.py). *)
(*                                                                         *)
(* Python values are modelled as follows.                                  *)
(*   - a dict with a fixed set of keys is a record;                        *)
(*   - a dict with a varying set of keys (a session's context) is a        *)
(*     function whose domain is the set of keys present.  Such dicts are   *)
(*     objects: the store holds a reference to them and so may a caller,   *)
(*     hence they live in the variable dicts, keyed by address;            *)
(*   - a list is a sequence;                                               *)
(*   - an Optional value is None (the empty sequence) or Some(v) (the      *)
(*     one-element sequence);                                              *)
(*   - datetime.now() is the variable now, a clock counted in ticks; the   *)
(*     timeout is counted in the same ticks.  The store's methods are      *)
(*     in-memory and run in far less than a tick, so every clock read of   *)
(*     one call returns the same value;                                    *)
(*   - uuid.uuid4() is the next unused value of the counter next_id.       *)
(***************************************************************************)
EXTENDS Integers, Sequences, FiniteSets, TLC

(***************************************************************************)
(* The arguments of ConversationManager(max_history, session_timeout_     *)
(* minutes).  The application builds the manager with the defaults, 10     *)
(* messages and 30 minutes; the model scales both down, keeping them       *)
(* positive.                                                               *)
(***************************************************************************)
max_history     == 2   \* self.max_history
session_timeout == 1   \* self.session_timeout, in ticks of the clock

(***************************************************************************)
(* Bounds of the model.                                                    *)
(***************************************************************************)
MaxSessions   == 2   \* sessions ever created
MaxTime       == 3   \* last tick of the clock
MaxAppends    == 6   \* messages ever appended to one session
MaxEvents     == 2   \* events of one video analysis
MaxAnalyses   == 1   \* analyses stored in one session in SpecAnalysis
MaxFrames     == 3   \* frames of a video
MaxOverwrites == 2   \* analyses stored in one session in SpecOverwrite
history_limit == 3   \* limit of the history read for the prompt (10 in the code)

VARIABLES
    sessions,         \* ConversationManager.sessions: id -> session record
    dicts,            \* the context dict objects: address -> mapping
    now,              \* the clock read by datetime.now()
    next_id,          \* the ids handed out so far are 1..next_id-1
    appended,         \* per id, every message add_message appended, in order
    held,             \* the reference a caller keeps from get_context
    threads,          \* per thread, its place in a method and its locals
    last              \* the last call and what it returned

vars == <<sessions, dicts, now, next_id,
          appended, held, threads, last>>

----------------------------------------------------------------------------
(* Values *)

None == <<>>
Some(v) == <<v>>

SessionIds == 1..MaxSessions
Roles      == {"user", "assistant", "system"}
Keys       == {"current_topics", "flag"}
Values     == {"v1", "v2"}

EmptyDict == [k \in {} |-> "v1"]

\* A faulty d[key] = value that keeps the value of a key already present.
DictSetDefault(d, key, value) ==
    [k \in DOMAIN d \cup {key} |-> IF k \in DOMAIN d THEN d[k] ELSE value]

\* d[key] = value on a Python dict
DictSet(d, key, value) ==
    [k \in DOMAIN d \cup {key} |-> IF k = key THEN value ELSE d[k]]

\* The address of the dict built by the literal {} in create_session is the
\* session's id; FreshDict is the address of the literal {} that get_context
\* returns for an absent session; NoRef is "no reference held".
FreshDict == 0
NoRef     == 0 - 1

Min(a, b) == IF a <= b THEN a ELSE b

\* seq[-k:] for k >= 0.  Python reads -0 as 0, so seq[-0:] is the whole list.
NegSlice(seq, k) ==
    IF k = 0 \/ k >= Len(seq) THEN seq
    ELSE SubSeq(seq, Len(seq) - k + 1, Len(seq))

\* dict equality of two messages: every key the code stores (n is the model's
\* record of the order of appends and is no key of the dict)
MsgEq(a, b) ==
    /\ a.role = b.role
    /\ a.content = b.content
    /\ a.timestamp = b.timestamp
    /\ a.metadata = b.metadata

\* m in msgs
MsgIn(m, msgs) == \E i \in 1..Len(msgs) : MsgEq(m, msgs[i])

----------------------------------------------------------------------------
(* ConversationManager, as functions of the store S and the clock t *)

\* A faulty expiry test that measures from the creation of the session.
ExpiredSinceCreation(sess, t) == t - sess.created_at > session_timeout

\* now - last_activity > session_timeout
Expired(sess, t) == t - sess.last_activity > session_timeout

\* A faulty clear_session that empties the store.
clear_session_all(S, s) == [x \in {} |-> S[x]]

clear_session(S, s) ==
    IF s \in DOMAIN S THEN [x \in DOMAIN S \ {s} |-> S[x]] ELSE S

\* A faulty get_session that reports an expired session absent and leaves
\* its record in the store.
get_session_keeps_expired(S, s, t) ==
    IF s \in DOMAIN S /\ t - S[s].last_activity <= session_timeout
    THEN [store |-> [S EXCEPT ![s].last_activity = t], found |-> TRUE]
    ELSE [store |-> S, found |-> FALSE]

\* A faulty get_session that removes every expired session it comes across,
\* not only the one asked for.
get_session_sweeps(S, s, t) ==
    LET kept == {x \in DOMAIN S : ~(t - S[x].last_activity > session_timeout)}
        S1   == [x \in kept |-> S[x]]
    IN  IF s \in kept
        THEN [store |-> [S1 EXCEPT ![s].last_activity = t], found |-> TRUE]
        ELSE [store |-> S1, found |-> FALSE]

\* The store after get_session, and whether it returned a session.
get_session(S, s, t) ==
    IF s \notin DOMAIN S
    THEN [store |-> S, found |-> FALSE]
    ELSE IF Expired(S[s], t)
         THEN [store |-> clear_session(S, s), found |-> FALSE]
         ELSE [store |-> [S EXCEPT ![s].last_activity = t], found |-> TRUE]

IsSystem(m) == m.role = "system"
IsNonSystem(m) == ~IsSystem(m)

\* Faulty trims: one keeps a window of 2*max_history + 1 entries, one keeps
\* the window alone and so drops the older system messages, one does not
\* filter the window and so keeps the system messages in it twice.
TrimKeepsOneMore(history, mh) ==
    IF Len(history) > mh * 2
    THEN SelectSeq(history, IsSystem)
             \o SelectSeq(NegSlice(history, mh * 2 + 1), IsNonSystem)
    ELSE history
TrimRecentOnly(history, mh) ==
    IF Len(history) > mh * 2 THEN NegSlice(history, mh * 2) ELSE history
TrimNoFilter(history, mh) ==
    IF Len(history) > mh * 2
    THEN SelectSeq(history, IsSystem) \o NegSlice(history, mh * 2)
    ELSE history

\* The history after the append, trimmed when it is too long.
Trim(history, mh) ==
    IF Len(history) > mh * 2
    THEN LET system_messages == SelectSeq(history, IsSystem)
             recent_messages == NegSlice(history, mh * 2)
             NotSystemCopy(m) == ~MsgIn(m, system_messages)
         IN  system_messages \o SelectSeq(recent_messages, NotSystemCopy)
    ELSE history

Message(role, content, metadata, t, n) ==
    [role |-> role, content |-> content, timestamp |-> t,
     metadata |-> metadata, n |-> n]

\* A faulty add_message that tests only whether the id is in the store, and
\* so appends to an expired session and makes it live again.
add_message_revives(S, s, role, content, metadata, t, n) ==
    IF s \notin DOMAIN S THEN S
    ELSE [S EXCEPT ![s].last_activity = t,
                   ![s].conversation_history =
                       Trim(Append(@, Message(role, content, metadata, t, n)),
                            max_history)]

add_message(S, s, role, content, metadata, t, n) ==
    LET g == get_session(S, s, t) IN
    IF ~g.found THEN g.store
    ELSE [g.store EXCEPT ![s].conversation_history =
              Trim(Append(@, Message(role, content, metadata, t, n)),
                   max_history)]

\* The list get_conversation_history returns (limit None is Some/None).
ReadHistory(history, limit) ==
    IF limit # None /\ limit[1] # 0 THEN NegSlice(history, limit[1])
    ELSE history


\* An event of a video analysis: the keys of the event dict the code reads.
Ev(ts, description, severity, violation) ==
    [timestamp |-> ts, description |-> description, severity |-> severity,
     guideline_violation |-> violation]

\* The events the vision model reports in the model: two timestamps, and two
\* events at each of them.
Events ==
    {Ev(1, "a", "low", FALSE), Ev(1, "b", "high", TRUE),
     Ev(2, "a", "medium", FALSE), Ev(2, "b", "low", TRUE)}

RECURSIVE SeqsUpTo(_, _)
SeqsUpTo(S, n) ==
    IF n = 0 THEN {<<>>}
    ELSE LET shorter == SeqsUpTo(S, n - 1)
         IN  shorter \cup {Append(q, x) : q \in {r \in shorter : Len(r) = n - 1}, x \in S}

EventLists == SeqsUpTo(Events, MaxEvents)

Summaries == {"summary"}

\* The guidelines dict is the report generate_summary builds, or {}.
NoGuidelines == EmptyDict

VideoAnalysis(events, summary, guidelines, t) ==
    [events |-> events, summary |-> summary, guidelines |-> guidelines,
     analyzed_at |-> t]

\* f"Video analyzed. Found {len(events)} events. Summary: {summary[:200]}..."
\* (the summaries of the model are shorter than 200 characters)
AnalysisNotice(events, summary) ==
    "Video analyzed. Found " \o ToString(Len(events)) \o " events. Summary: "
        \o summary \o "..."

NoMetadata       == {}
AnalysisMetadata == {<<"type", "video_analysis">>}

\* A faulty store_video_analysis that keeps the analysis a session already
\* has.
store_video_analysis_keeps_first(S, s, events, summary, guidelines, t, n) ==
    LET g == get_session(S, s, t) IN
    IF ~g.found THEN g.store
    ELSE add_message(
             [g.store EXCEPT ![s].video_analysis =
                  IF @ = None
                  THEN Some(VideoAnalysis(events, summary, guidelines, t))
                  ELSE @],
             s, "system", AnalysisNotice(events, summary), AnalysisMetadata,
             t, n)

store_video_analysis(S, s, events, summary, guidelines, t, n) ==
    LET g == get_session(S, s, t) IN
    IF ~g.found THEN g.store
    ELSE add_message(
             [g.store EXCEPT ![s].video_analysis =
                  Some(VideoAnalysis(events, summary, guidelines, t))],
             s, "system", AnalysisNotice(events, summary), AnalysisMetadata,
             t, n)

\* A faulty scan that also collects the sessions idle for exactly the timeout.
ExpiredSessionsAtTimeout(S, t) ==
    {s \in DOMAIN S : t - S[s].last_activity >= session_timeout}

\* The ids clear_expired_sessions collects in expired_sessions.
ExpiredSessions(S, t) == {s \in DOMAIN S : Expired(S[s], t)}

\* A faulty sweep that removes one expired session and leaves the others.
clear_expired_one(S, t) ==
    IF ExpiredSessions(S, t) = {} THEN S
    ELSE [s \in DOMAIN S \ {CHOOSE x \in ExpiredSessions(S, t) : TRUE} |-> S[s]]

clear_expired_sessions(S, t) ==
    [s \in DOMAIN S \ ExpiredSessions(S, t) |-> S[s]]

\* A faulty create_session that leaves last_activity at the epoch.
NewSessionEpoch(id, t) ==
    [id |-> id, created_at |-> t, last_activity |-> 0,
     conversation_history |-> <<>>, video_analysis |-> None, context |-> id]

\* A faulty create_session that starts the session with the inactivity of a
\* whole tick.
NewSessionBackdated(id, t) ==
    [id |-> id, created_at |-> t, last_activity |-> t - 1,
     conversation_history |-> <<>>, video_analysis |-> None, context |-> id]

NewSession(id, t) ==
    [id |-> id, created_at |-> t, last_activity |-> t,
     conversation_history |-> <<>>, video_analysis |-> None, context |-> id]

\* list.sort(key=timestamp): Python's sort is stable
RECURSIVE SortByTimestamp(_)
InsertByTimestamp(sorted, e) ==
    LET keep == {i \in 1..Len(sorted) : sorted[i].timestamp <= e.timestamp}
        k    == Cardinality(keep)
    IN  SubSeq(sorted, 1, k) \o <<e>> \o SubSeq(sorted, k + 1, Len(sorted))
SortByTimestamp(events) ==
    IF events = <<>> THEN <<>>
    ELSE InsertByTimestamp(SortByTimestamp(SubSeq(events, 1, Len(events) - 1)),
                           events[Len(events)])

\* A dict object is kept while the store or the caller refers to it.
Collect(D, S, h) ==
    [a \in DOMAIN D \cap ({S[s].context : s \in DOMAIN S} \cup {h.ref}) |-> D[a]]

----------------------------------------------------------------------------
(* State *)

\* What the model keeps of a call: the method and the id it was called with,
\* whether it found a live session, what it returned (a history, an analysis,
\* an HTTP status, a number), the ids it removed from the store, and for
\* update_context the key, the value and the context as it was before; for a
\* chat request the message, the reply, whether the chat model call failed
\* and whether the request created the session; for the analysis of a
\* batch of frames the frames, the kind of the vision model's reply and the
\* events returned.
\* ret is the number a method returns: None for a method without a return
\* statement, Some(n) for return n.
NoKey == ""
Call(op, sid, found) ==
    [op |-> op, sid |-> sid, found |-> found, history |-> <<>>,
     analysis |-> None, status |-> 0, count |-> 0,
     removed |-> DOMAIN sessions \ DOMAIN sessions',
     key |-> NoKey, value |-> NoKey, before |-> EmptyDict,
     ret |-> None,
     message |-> NoKey, reply |-> NoKey, failed |-> FALSE, created |-> FALSE,
     frames |-> <<>>, kind |-> NoKey, events |-> <<>>,
     lines |-> <<>>, prompt |-> <<>>]

NoSid == 0

\* The threads that call the store, and a thread that is in no method.
ThreadIds == {1, 2}

IdleThread ==
    [pc |-> "idle", sid |-> NoSid,
     system_messages |-> <<>>, recent_messages |-> <<>>,
     current_time |-> 0, size |-> 0, scanned |-> {},
     expired_sessions |-> <<>>]

Init ==
    /\ sessions = [s \in {} |-> NewSession(s, 0)]
    /\ dicts = [a \in {} |-> EmptyDict]
    /\ now = 0
    /\ next_id = 1
    /\ appended = [s \in SessionIds |-> <<>>]
    /\ held = [ref |-> NoRef, seen |-> EmptyDict]
    /\ threads = [t \in ThreadIds |-> IdleThread]
    /\ last = [op |-> "init", sid |-> NoSid, found |-> FALSE, history |-> <<>>,
               analysis |-> None, status |-> 0, count |-> 0, removed |-> {},
               key |-> NoKey, value |-> NoKey, before |-> EmptyDict,
               ret |-> None,
               message |-> NoKey, reply |-> NoKey, failed |-> FALSE,
               created |-> FALSE,
               frames |-> <<>>, kind |-> NoKey, events |-> <<>>,
               lines |-> <<>>, prompt |-> <<>>]

Live(s) == s \in DOMAIN sessions /\ ~Expired(sessions[s], now)

\* No call of the store moves the clock, and a call made as a whole leaves
\* the threads where they are.
Same == UNCHANGED <<now, threads>>

Tick ==
    /\ now < MaxTime
    /\ now' = now + 1
    /\ UNCHANGED <<sessions, dicts, next_id, appended, held, threads>>
    /\ last' = Call("tick", NoSid, FALSE)

CreateSession ==
    /\ next_id <= MaxSessions
    /\ sessions' = [s \in DOMAIN sessions \cup {next_id} |->
                       IF s = next_id THEN NewSession(next_id, now) ELSE sessions[s]]
    /\ dicts' = [a \in DOMAIN dicts \cup {next_id} |->
                    IF a = next_id THEN EmptyDict ELSE dicts[a]]
    /\ next_id' = next_id + 1
    /\ last' = Call("create_session", next_id, TRUE)
    /\ Same /\ UNCHANGED <<appended, held>>

GetSession(s) ==
    LET g == get_session(sessions, s, now) IN
    /\ sessions' = g.store
    /\ dicts' = Collect(dicts, g.store, held)
    /\ last' = Call("get_session", s, g.found)
    /\ Same /\ UNCHANGED <<next_id, appended, held>>

AddMessage(s, role, content) ==
    LET n == Len(appended[s]) + 1 IN
    /\ Live(s) => n <= MaxAppends
    /\ sessions' = add_message(sessions, s, role, content, NoMetadata, now, n)
    /\ dicts' = Collect(dicts, sessions', held)
    /\ appended' = IF Live(s)
                   THEN [appended EXCEPT ![s] =
                            Append(@, Message(role, content, NoMetadata, now, n))]
                   ELSE appended
    /\ last' = Call("add_message", s, Live(s))
    /\ Same /\ UNCHANGED <<next_id, held>>

GetConversationHistory(s, limit) ==
    LET g == get_session(sessions, s, now) IN
    /\ sessions' = g.store
    /\ dicts' = Collect(dicts, g.store, held)
    /\ last' = [Call("get_conversation_history", s, g.found) EXCEPT
                   !.history = IF g.found
                               THEN ReadHistory(g.store[s].conversation_history, limit)
                               ELSE <<>>,
                   !.count = IF limit = None THEN 0 - 1 ELSE limit[1]]
    /\ Same /\ UNCHANGED <<next_id, appended, held>>

StoreVideoAnalysis(s, events, summary, guidelines) ==
    LET n == Len(appended[s]) + 1 IN
    /\ Live(s) => n <= MaxAppends
    /\ sessions' = store_video_analysis(sessions, s, events, summary, guidelines, now, n)
    /\ dicts' = Collect(dicts, sessions', held)
    /\ appended' = IF Live(s)
                   THEN [appended EXCEPT ![s] =
                            Append(@, Message("system", AnalysisNotice(events, summary),
                                              AnalysisMetadata, now, n))]
                   ELSE appended
    /\ last' = [Call("store_video_analysis", s, Live(s)) EXCEPT
                   !.analysis = IF Live(s)
                                THEN Some(VideoAnalysis(events, summary,
                                                        guidelines, now))
                                ELSE None]
    /\ Same /\ UNCHANGED <<next_id, held>>

GetVideoAnalysis(s) ==
    LET g == get_session(sessions, s, now) IN
    /\ sessions' = g.store
    /\ dicts' = Collect(dicts, g.store, held)
    /\ last' = [Call("get_video_analysis", s, g.found) EXCEPT
                   !.analysis = IF g.found THEN g.store[s].video_analysis ELSE None]
    /\ Same /\ UNCHANGED <<next_id, appended, held>>

UpdateContext(s, key, value) ==
    LET g == get_session(sessions, s, now) IN
    /\ sessions' = g.store
    /\ dicts' = IF g.found
                THEN [dicts EXCEPT ![g.store[s].context] = DictSet(@, key, value)]
                ELSE Collect(dicts, g.store, held)
    /\ last' = [Call("update_context", s, g.found) EXCEPT
                   !.key = key, !.value = value,
                   !.before = IF g.found THEN dicts[g.store[s].context]
                              ELSE EmptyDict]
    /\ Same /\ UNCHANGED <<next_id, appended, held>>

\* get_context returns the session's own dict object (or a new empty dict);
\* the caller keeps the reference and remembers what it read.
GetContext(s) ==
    LET g   == get_session(sessions, s, now)
        ref == IF g.found THEN g.store[s].context ELSE FreshDict
        D   == IF g.found THEN dicts
               ELSE [a \in DOMAIN dicts \cup {FreshDict} |->
                        IF a = FreshDict THEN EmptyDict ELSE dicts[a]]
    IN
    /\ sessions' = g.store
    /\ held' = [ref |-> ref, seen |-> D[ref]]
    /\ dicts' = Collect(D, g.store, held')
    /\ last' = Call("get_context", s, g.found)
    /\ Same /\ UNCHANGED <<next_id, appended>>

\* The caller writes to the mapping get_context gave it.
CallerWrites(key, value) ==
    /\ held.ref # NoRef
    /\ dicts' = [dicts EXCEPT ![held.ref] = DictSet(@, key, value)]
    /\ Same /\ UNCHANGED <<sessions, next_id, appended, held>>
    /\ last' = [Call("caller_writes", NoSid, FALSE) EXCEPT
                   !.key = key, !.value = value]

\* export_session: the JSON text of the record, or None.  The text is kept as
\* the export_data it is dumped from; the context is dumped by content.
ExportSession(s) ==
    LET g == get_session(sessions, s, now) IN
    /\ sessions' = g.store
    /\ dicts' = Collect(dicts, g.store, held)
    /\ last' = [Call("export_session", s, g.found) EXCEPT
                   !.ret = IF g.found
                           THEN Some([id |-> g.store[s].id,
                                      created_at |-> g.store[s].created_at,
                                      last_activity |-> g.store[s].last_activity,
                                      conversation_history |->
                                          g.store[s].conversation_history,
                                      video_analysis |-> g.store[s].video_analysis,
                                      context |-> dicts[g.store[s].context]])
                           ELSE None]
    /\ Same /\ UNCHANGED <<next_id, appended, held>>

\* main.get_session, the HTTP get.  The HTTPException(404) is raised inside
\* the try block and is an Exception, so the handler's except clause catches
\* it and raises HTTPException(500) in its place.
ApiGetSession(s) ==
    LET g == get_session(sessions, s, now) IN
    /\ sessions' = g.store
    /\ dicts' = Collect(dicts, g.store, held)
    /\ last' = [Call("api_get_session", s, g.found) EXCEPT
                   !.status = IF g.found THEN 200 ELSE 500]
    /\ Same /\ UNCHANGED <<next_id, appended, held>>

ClearSession(s) ==
    /\ sessions' = clear_session(sessions, s)
    /\ dicts' = Collect(dicts, sessions', held)
    /\ last' = Call("clear_session", s, s \in DOMAIN sessions)
    /\ Same /\ UNCHANGED <<next_id, appended, held>>

\* main.clear_session, the HTTP delete: 200 unless clear_session raised
ApiClearSession(s) ==
    /\ sessions' = clear_session(sessions, s)
    /\ dicts' = Collect(dicts, sessions', held)
    /\ last' = [Call("api_clear_session", s, s \in DOMAIN sessions) EXCEPT
                   !.status = 200]
    /\ Same /\ UNCHANGED <<next_id, appended, held>>

\* clear_expired_sessions has no return statement: it logs the number of
\* sessions it removed and returns None.
ClearExpiredSessions ==
    /\ sessions' = clear_expired_sessions(sessions, now)
    /\ dicts' = Collect(dicts, sessions', held)
    /\ last' = Call("clear_expired_sessions", NoSid, FALSE)
    /\ Same /\ UNCHANGED <<next_id, appended, held>>

GetActiveSessionsCount ==
    /\ sessions' = clear_expired_sessions(sessions, now)
    /\ dicts' = Collect(dicts, sessions', held)
    /\ last' = [Call("get_active_sessions_count", NoSid, FALSE) EXCEPT
                   !.count = Cardinality(DOMAIN sessions'),
                   !.ret = Some(Cardinality(DOMAIN sessions'))]
    /\ Same /\ UNCHANGED <<next_id, appended, held>>

IsViolation(e) == e.guideline_violation
IsHigh(e)      == e.severity = "high"
IsMedium(e)    == e.severity = "medium"

RECURSIVE ViolationEntries(_)
ViolationEntries(violations) ==
    IF violations = <<>> THEN <<>>
    ELSE <<[timestamp |-> Head(violations).timestamp,
            description |-> Head(violations).description,
            severity |-> Head(violations).severity]>>
         \o ViolationEntries(Tail(violations))

\* generate_summary: the summary text and the guideline adherence dict.
\* chat_ok is whether the chat model call returned; summary is its reply.
\* violation_rate, a float, is kept as the pair <<violations, events>>.
generate_summary(events, chat_ok, summary) ==
    IF events = <<>>
    THEN [summary |-> "No significant events detected in the video.",
          guidelines |-> NoGuidelines]
    ELSE IF ~chat_ok
    THEN [summary |-> "Error generating summary", guidelines |-> NoGuidelines]
    ELSE LET violations == SelectSeq(events, IsViolation) IN
         [summary |-> summary,
          guidelines |->
              [total_events |-> Len(events),
               violations_count |-> Len(violations),
               high_severity_count |-> Len(SelectSeq(events, IsHigh)),
               medium_severity_count |-> Len(SelectSeq(events, IsMedium)),
               violation_rate |-> <<Len(violations), Len(events)>>,
               violations |-> ViolationEntries(violations),
               compliance_status |->
                   IF Len(violations) = 0 THEN "Good"
                   ELSE IF Len(violations) <= 2 THEN "Needs Attention"
                   ELSE "Poor"]]

\* detect_events: the events of all batches, in the order the vision model
\* gave them, sorted by timestamp.
detect_events(reported) == SortByTimestamp(reported)

\* main.upload_video.  session_id is None or Some(id); valid is whether the
\* file name has a video suffix; frames is what extract_frames returns (no
\* frame for a file that cannot be decoded); reported, chat_ok and summary
\* are what the two models answer.  Without frames there is no batch and no
\* event.  An HTTPException raised inside the try block is an Exception, so
\* the handler's except clause turns the 400 into a 500.
UploadVideo(session_id, valid, frames, reported, chat_ok, summary) ==
    LET events == detect_events(IF frames = <<>> THEN <<>> ELSE reported)
        gs     == generate_summary(events, chat_ok, summary)
        create == session_id = None
        sid    == IF create THEN next_id ELSE session_id[1]
        S1     == IF create
                  THEN [s \in DOMAIN sessions \cup {sid} |->
                           IF s = sid THEN NewSession(sid, now) ELSE sessions[s]]
                  ELSE sessions
        alive  == IF create THEN TRUE ELSE Live(sid)
        n      == Len(appended[sid]) + 1
    IN
    IF ~valid
    THEN /\ Same /\ UNCHANGED <<sessions, dicts, next_id, appended, held>>
         /\ last' = [Call("upload_video", NoSid, FALSE) EXCEPT
                        !.status = 500, !.kind = "invalid_format",
                        !.frames = frames]
    ELSE /\ create => next_id <= MaxSessions
         /\ alive => n <= MaxAppends
         /\ sessions' = store_video_analysis(S1, sid, events, gs.summary,
                                             gs.guidelines, now, n)
         /\ dicts' = Collect(IF create
                             THEN [a \in DOMAIN dicts \cup {sid} |->
                                      IF a = sid THEN EmptyDict ELSE dicts[a]]
                             ELSE dicts,
                             sessions', held)
         /\ next_id' = IF create THEN next_id + 1 ELSE next_id
         /\ appended' = IF alive
                        THEN [appended EXCEPT ![sid] =
                                 Append(@, Message("system",
                                                   AnalysisNotice(events, gs.summary),
                                                   AnalysisMetadata, now, n))]
                        ELSE appended
         /\ last' = [Call("upload_video", sid, alive) EXCEPT
                        !.status = 200,
                        !.analysis = Some(VideoAnalysis(events, gs.summary,
                                                        gs.guidelines, now)),
                        !.kind = IF frames = <<>> THEN "no_frames" ELSE "analyzed",
                        !.frames = frames,
                        !.events = events,
                        !.failed = (events # <<>> /\ ~chat_ok),
                        !.created = create]
         /\ Same /\ UNCHANGED held

\* A frame of extract_frames: the keys the event recognizer reads.
Frame(k) == [timestamp |-> k, frame_number |-> 10 * k]

\* The frames of a video that can be decoded.
VideoFrames == <<Frame(1), Frame(2)>>

\* A batch is a run of consecutive frames of the video.
FrameBatches ==
    {[i \in 1..(hi - lo + 1) |-> Frame(lo + i - 1)] :
         lo \in 1..MaxFrames, hi \in 1..MaxFrames} \ {<<>>}

\* What the vision model call gives for a batch: the call raises; the text
\* holds no '[' followed by a ']'; the text between the first '[' and the
\* last ']' is not JSON; it is a JSON list whose entries are not objects;
\* it is a JSON list of event objects.
VisionKinds == {"call_fails", "no_array", "invalid_json", "wrong_shape", "events"}
VisionReplies ==
    {[kind |-> k, events |-> <<>>] : k \in VisionKinds \ {"events"}}
        \cup {[kind |-> "events", events |-> e] : e \in EventLists}

Abs(x) == IF x < 0 THEN 0 - x ELSE x

\* _find_closest_frame: the first frame at the least distance
RECURSIVE ClosestFrom(_, _, _, _, _)
ClosestFrom(frames, i, timestamp, closest_frame, min_diff) ==
    IF i > Len(frames) THEN closest_frame
    ELSE LET diff == Abs(frames[i].timestamp - timestamp) IN
         IF diff < min_diff
         THEN ClosestFrom(frames, i + 1, timestamp, frames[i].frame_number, diff)
         ELSE ClosestFrom(frames, i + 1, timestamp, closest_frame, min_diff)
find_closest_frame(timestamp, frames) ==
    ClosestFrom(frames, 2, timestamp, frames[1].frame_number,
                Abs(frames[1].timestamp - timestamp))

\* The event the fallback makes of a frame.
SceneEvent(frame) ==
    [timestamp |-> frame.timestamp, frame_number |-> frame.frame_number,
     event_type |-> "scene", description |-> "Scene captured",
     severity |-> "low", guideline_violation |-> FALSE]

\* An event of the reply, with the frame number the recognizer adds.
WithFrame(event, frames) ==
    [timestamp |-> event.timestamp, description |-> event.description,
     severity |-> event.severity,
     guideline_violation |-> event.guideline_violation,
     frame_number |-> find_closest_frame(event.timestamp, frames)]

\* _analyze_frame_batch.  The fallback is the handler of JSONDecodeError
\* alone: a text without an array skips the if and leaves events empty, and
\* any other exception ends in the outer handler, which returns [].
analyze_frame_batch(frames, reply) ==
    CASE reply.kind = "call_fails"   -> <<>>
      [] reply.kind = "no_array"     -> <<>>
      [] reply.kind = "invalid_json" ->
             [i \in 1..Len(frames) |-> SceneEvent(frames[i])]
      [] reply.kind = "wrong_shape"  -> <<>>
      [] reply.kind = "events"       ->
             [i \in 1..Len(reply.events) |-> WithFrame(reply.events[i], frames)]

AnalyzeFrameBatch(frames, reply) ==
    /\ Same /\ UNCHANGED <<sessions, dicts, next_id, appended, held>>
    /\ last' = [Call("_analyze_frame_batch", NoSid, FALSE) EXCEPT
                   !.frames = frames, !.kind = reply.kind,
                   !.events = analyze_frame_batch(frames, reply)]

\* The lines of an answer of answer_specific_query, one per event or
\* violation entry: "- [{timestamp}s] {description}", with
\* " (Severity: {severity})" for a violation entry.
RECURSIVE EventLines(_)
EventLines(events) ==
    IF events = <<>> THEN <<>>
    ELSE <<[timestamp |-> Head(events).timestamp,
            description |-> Head(events).description]>>
         \o EventLines(Tail(events))

RECURSIVE ViolationLines(_)
ViolationLines(violations) ==
    IF violations = <<>> THEN <<>>
    ELSE <<[timestamp |-> Head(violations).timestamp,
            description |-> Head(violations).description,
            severity |-> Head(violations).severity]>>
         \o ViolationLines(Tail(violations))

\* seq[:k]
Take(seq, k) == SubSeq(seq, 1, Min(k, Len(seq)))

\* answer_specific_query on what get_video_analysis returned: the first line
\* of the answer and the lines after it.  timestamp and event_type are the
\* parameters of the query.  The events of the model carry no event_type
\* key, so e.get('event_type', '') is the empty string, which contains the
\* empty string only.
answer_specific_query(video_analysis, query_type, timestamp, event_type) ==
    IF video_analysis = None
    THEN [text  |-> "No video has been analyzed yet. Please upload a video first.",
          lines |-> <<>>]
    ELSE
    LET events     == video_analysis[1].events
        guidelines == video_analysis[1].guidelines
        Near(e)    == Abs(e.timestamp - timestamp) < 2
        nearby     == SelectSeq(events, Near)
        violations == IF "violations" \in DOMAIN guidelines
                      THEN guidelines.violations ELSE <<>>
        filtered   == IF event_type = "" THEN events ELSE <<>>
    IN
    CASE query_type = "event_at_time" ->
             IF nearby # <<>>
             THEN [text  |-> "Events around " \o ToString(timestamp) \o "s:",
                   lines |-> EventLines(nearby)]
             ELSE [text  |-> "No events found around " \o ToString(timestamp)
                                \o "s",
                   lines |-> <<>>]
      [] query_type = "violation_details" ->
             IF violations # <<>>
             THEN [text  |-> "Detected violations:",
                   lines |-> ViolationLines(violations)]
             ELSE [text  |-> "No violations detected in the video.",
                   lines |-> <<>>]
      [] query_type = "event_summary" ->
             IF filtered # <<>>
             THEN [text  |-> "Found " \o ToString(Len(filtered)) \o " "
                                \o event_type \o " events:",
                   lines |-> EventLines(Take(filtered, 5))]
             ELSE [text  |-> "No " \o event_type
                                \o " events found in the video.",
                   lines |-> <<>>]
      [] OTHER -> [text |-> "Query type not recognized.", lines |-> <<>>]

AnswerSpecificQuery(s, query_type, timestamp, event_type) ==
    LET g        == get_session(sessions, s, now)
        analysis == IF g.found THEN g.store[s].video_analysis ELSE None
        answer   == answer_specific_query(analysis, query_type, timestamp,
                                          event_type)
    IN
    /\ sessions' = g.store
    /\ dicts' = Collect(dicts, g.store, held)
    /\ last' = [Call("answer_specific_query", s, g.found) EXCEPT
                   !.kind = query_type, !.analysis = analysis,
                   !.reply = answer.text, !.lines = answer.lines]
    /\ Same /\ UNCHANGED <<next_id, appended, held>>

\* The messages of chat requests and the replies of the chat model.
ChatMessages == {"hello", "when"}
Replies      == {"reply"}

Apology ==
    "I apologize, but I encountered an error processing your message. Please try again."

\* The topics _update_context_from_conversation finds in a message: "when"
\* is a keyword of the topic timeline, "hello" holds no keyword.
Topics(message) == IF message = "when" THEN <<"timeline">> ELSE <<>>

\* The system message of the prompt: the system prompt, followed, when the
\* session has a video analysis, by its summary, the number of its events,
\* the compliance status and violation count of its guidelines (Unknown and
\* 0 without them) and a line for each of its first five events.
SystemContent(video_analysis) ==
    IF video_analysis = None
    THEN [system_prompt |-> TRUE, analysis |-> None]
    ELSE LET a == video_analysis[1]
             g == a.guidelines
         IN  [system_prompt |-> TRUE,
              analysis |-> Some(
                  [summary |-> a.summary,
                   total_events |-> Len(a.events),
                   compliance |-> IF "compliance_status" \in DOMAIN g
                                  THEN g.compliance_status ELSE "Unknown",
                   violations |-> IF "violations_count" \in DOMAIN g
                                  THEN g.violations_count ELSE 0,
                   sample |-> EventLines(Take(a.events, 5))])]

IsTurn(m) == m.role \in {"user", "assistant"}

RECURSIVE RoleContent(_)
RoleContent(msgs) ==
    IF msgs = <<>> THEN <<>>
    ELSE <<[role |-> Head(msgs).role, content |-> Head(msgs).content]>>
         \o RoleContent(Tail(msgs))

\* history[:-1]
AllButLast(seq) == SubSeq(seq, 1, Len(seq) - 1)

\* A faulty _build_messages that copies the whole of the history it was
\* given, the message just appended included.
build_messages_whole(history, video_analysis, current_message) ==
    <<[role |-> "system", content |-> SystemContent(video_analysis)]>>
        \o RoleContent(SelectSeq(history, IsTurn))
        \o <<[role |-> "user", content |-> current_message]>>

\* _build_messages: the list of messages given to the chat model.  The
\* context argument is not used.
build_messages(history, video_analysis, current_message) ==
    <<[role |-> "system", content |-> SystemContent(video_analysis)]>>
        \o RoleContent(SelectSeq(AllButLast(history), IsTurn))
        \o <<[role |-> "user", content |-> current_message]>>

\* The history and the analysis process_message reads after it has appended
\* the user message, and the prompt it builds from them.
TurnReads(S1, sid, message, t) ==
    LET g == get_session(S1, sid, t)
        history == IF g.found
                   THEN ReadHistory(g.store[sid].conversation_history,
                                    Some(history_limit))
                   ELSE <<>>
        video_analysis == IF g.found THEN g.store[sid].video_analysis ELSE None
    IN  [history |-> history,
         prompt  |-> build_messages(history, video_analysis, message)]

\* A faulty process_message without the except clause: the failure of the
\* chat model call leaves it as an exception.
process_message_raises(S, D, sid, message, model_ok, reply, t, delay, n) ==
    LET S1 == add_message(S, sid, "user", message, NoMetadata, t, n)
        r  == TurnReads(S1, sid, message, t)
    IN  IF ~model_ok
        THEN [store |-> S1, dicts |-> D, response |-> Apology, raised |-> TRUE,
              history |-> r.history, prompt |-> r.prompt]
        ELSE [store |-> add_message(S1, sid, "assistant", reply, NoMetadata,
                                    t + delay, n + 1),
              dicts |-> D, response |-> reply, raised |-> FALSE,
              history |-> r.history, prompt |-> r.prompt]

\* process_message: the store and the dicts it leaves, the text it returns
\* and whether it raised.  The turn starts at t; the chat model answers (or
\* fails) delay ticks later and may answer with reply; n is the rank of the
\* user message if it is appended.  The client's call is synchronous, so no
\* other request runs during the turn.
process_message(S, D, sid, message, model_ok, reply, t, delay, n) ==
    LET user_in == get_session(S, sid, t).found
        S1 == add_message(S, sid, "user", message, NoMetadata, t, n)
        \* get_conversation_history, get_video_analysis, get_context
        S2 == get_session(S1, sid, t).store
        S3 == get_session(S2, sid, t).store
        S4 == get_session(S3, sid, t).store
        r  == TurnReads(S1, sid, message, t)
    IN  IF ~model_ok
        THEN [store |-> S4, dicts |-> D, response |-> Apology, raised |-> FALSE,
              history |-> r.history, prompt |-> r.prompt]
        ELSE LET S5 == add_message(S4, sid, "assistant", reply, NoMetadata,
                                   t + delay, IF user_in THEN n + 1 ELSE n)
                 g  == get_session(S5, sid, t + delay)
             IN  IF Topics(message) = <<>>
                 THEN [store |-> S5, dicts |-> D, response |-> reply,
                       raised |-> FALSE,
                       history |-> r.history, prompt |-> r.prompt]
                 ELSE [store |-> g.store,
                       dicts |-> IF g.found
                                 THEN [D EXCEPT ![g.store[sid].context] =
                                          DictSet(@, "current_topics",
                                                  Topics(message))]
                                 ELSE D,
                       response |-> reply, raised |-> FALSE,
                       history |-> r.history, prompt |-> r.prompt]

\* main.chat.  session_id is None or Some(id).  A failure inside
\* process_message is answered there, so the request ends with 200 unless
\* process_message raises.
Chat(session_id, message, model_ok, reply, delay) ==
    LET create == session_id = None
        sid    == IF create THEN next_id ELSE session_id[1]
        S0     == IF create
                  THEN [s \in DOMAIN sessions \cup {sid} |->
                           IF s = sid THEN NewSession(sid, now) ELSE sessions[s]]
                  ELSE sessions
        D0     == IF create
                  THEN [a \in DOMAIN dicts \cup {sid} |->
                           IF a = sid THEN EmptyDict ELSE dicts[a]]
                  ELSE dicts
        n      == Len(appended[sid]) + 1
        pm     == process_message(S0, D0, sid, message, model_ok, reply, now,
                                  delay, n)
        user_in  == get_session(S0, sid, now).found
        reply_in == /\ model_ok
                    /\ get_session(add_message(S0, sid, "user", message,
                                               NoMetadata, now, n),
                                   sid, now + delay).found
        A1     == IF user_in
                  THEN [appended EXCEPT ![sid] =
                           Append(@, Message("user", message, NoMetadata, now, n))]
                  ELSE appended
    IN
    /\ create => next_id <= MaxSessions
    /\ now + delay <= MaxTime
    /\ n + 1 <= MaxAppends
    /\ now' = now + delay
    /\ sessions' = pm.store
    /\ dicts' = Collect(pm.dicts, pm.store, held)
    /\ next_id' = IF create THEN next_id + 1 ELSE next_id
    /\ appended' = IF reply_in
                   THEN [A1 EXCEPT ![sid] =
                            Append(@, Message("assistant", reply, NoMetadata,
                                              now + delay, Len(A1[sid]) + 1))]
                   ELSE A1
    /\ last' = [Call("chat", sid, user_in) EXCEPT
                   !.status = IF pm.raised THEN 500 ELSE 200,
                   !.message = message,
                   !.reply = pm.response,
                   !.failed = ~model_ok,
                   !.created = create,
                   !.history = pm.history,
                   !.prompt = pm.prompt]
    /\ UNCHANGED <<held, threads>>

\* add_message run by a thread, step by step.  The store has no lock, so
\* the steps of two calls may alternate.  A thread whose session has left
\* the store meanwhile works on a record the store no longer holds, and
\* what it does there changes nothing in the store.
Combine(system_messages, recent_messages) ==
    LET NotSystemCopy(m) == ~MsgIn(m, system_messages)
    IN  system_messages \o SelectSeq(recent_messages, NotSystemCopy)

\* get_session, the message and session['conversation_history'].append
AmAppend(t, s, role, content) ==
    LET g == get_session(sessions, s, now)
        n == Len(appended[s]) + 1
        m == Message(role, content, NoMetadata, now, n)
    IN
    /\ threads[t].pc = "idle"
    /\ g.found => n <= MaxAppends
    /\ sessions' = IF g.found
                   THEN [g.store EXCEPT ![s].conversation_history = Append(@, m)]
                   ELSE g.store
    /\ dicts' = Collect(dicts, sessions', held)
    /\ appended' = IF g.found THEN [appended EXCEPT ![s] = Append(@, m)]
                   ELSE appended
    /\ threads' = [threads EXCEPT ![t] =
                       IF g.found
                       THEN [IdleThread EXCEPT !.pc = "am_check", !.sid = s]
                       ELSE IdleThread]
    /\ last' = Call("am_append", s, g.found)
    /\ UNCHANGED <<now, next_id, held>>

\* if len(session['conversation_history']) > self.max_history * 2
AmCheck(t) ==
    LET s == threads[t].sid IN
    /\ threads[t].pc = "am_check"
    /\ threads' = [threads EXCEPT ![t] =
                       IF /\ s \in DOMAIN sessions
                          /\ Len(sessions[s].conversation_history)
                                 > max_history * 2
                       THEN [@ EXCEPT !.pc = "am_system"]
                       ELSE IdleThread]
    /\ UNCHANGED <<sessions, dicts, now, next_id, appended, held>>
    /\ last' = Call("am_check", s, s \in DOMAIN sessions)

\* system_messages = [m for m in ... if m['role'] == 'system']
AmSystem(t) ==
    LET s == threads[t].sid IN
    /\ threads[t].pc = "am_system"
    /\ threads' = [threads EXCEPT ![t] =
                       IF s \in DOMAIN sessions
                       THEN [@ EXCEPT !.pc = "am_recent",
                                      !.system_messages =
                                          SelectSeq(sessions[s].conversation_history,
                                                    IsSystem)]
                       ELSE IdleThread]
    /\ UNCHANGED <<sessions, dicts, now, next_id, appended, held>>
    /\ last' = Call("am_system", s, s \in DOMAIN sessions)

\* recent_messages = session['conversation_history'][-(self.max_history * 2):]
AmRecent(t) ==
    LET s == threads[t].sid IN
    /\ threads[t].pc = "am_recent"
    /\ threads' = [threads EXCEPT ![t] =
                       IF s \in DOMAIN sessions
                       THEN [@ EXCEPT !.pc = "am_assign",
                                      !.recent_messages =
                                          NegSlice(sessions[s].conversation_history,
                                                   max_history * 2)]
                       ELSE IdleThread]
    /\ UNCHANGED <<sessions, dicts, now, next_id, appended, held>>
    /\ last' = Call("am_recent", s, s \in DOMAIN sessions)

\* session['conversation_history'] = system_messages + [...]
AmAssign(t) ==
    LET s == threads[t].sid IN
    /\ threads[t].pc = "am_assign"
    /\ sessions' = IF s \in DOMAIN sessions
                   THEN [sessions EXCEPT ![s].conversation_history =
                            Combine(threads[t].system_messages,
                                    threads[t].recent_messages)]
                   ELSE sessions
    /\ threads' = [threads EXCEPT ![t] = IdleThread]
    /\ last' = Call("am_assign", s, s \in DOMAIN sessions)
    /\ UNCHANGED <<dicts, now, next_id, appended, held>>

\* create_session run by a thread: the id is drawn and the record built with
\* the clock's reading, then the record is put in the store and the id
\* returned.
CsBuild(t) ==
    /\ threads[t].pc = "idle"
    /\ next_id <= MaxSessions
    /\ threads' = [threads EXCEPT ![t] =
                       [IdleThread EXCEPT !.pc = "cs_insert", !.sid = next_id,
                                          !.current_time = now]]
    /\ next_id' = next_id + 1
    /\ UNCHANGED <<sessions, dicts, now, appended, held>>
    /\ last' = Call("cs_build", next_id, FALSE)

CsInsert(t) ==
    LET s == threads[t].sid IN
    /\ threads[t].pc = "cs_insert"
    /\ sessions' = [x \in DOMAIN sessions \cup {s} |->
                       IF x = s THEN NewSession(s, threads[t].current_time)
                       ELSE sessions[x]]
    /\ dicts' = [a \in DOMAIN dicts \cup {s} |->
                    IF a = s THEN EmptyDict ELSE dicts[a]]
    /\ threads' = [threads EXCEPT ![t] = IdleThread]
    /\ last' = Call("cs_insert", s, TRUE)
    /\ UNCHANGED <<now, next_id, appended, held>>

\* clear_expired_sessions run by a thread.  It reads the clock and starts to
\* iterate over the store.
SwStart(t) ==
    /\ threads[t].pc = "idle"
    /\ threads' = [threads EXCEPT ![t] =
                       [IdleThread EXCEPT !.pc = "sw_scan",
                                          !.current_time = now,
                                          !.size = Cardinality(DOMAIN sessions)]]
    /\ UNCHANGED <<sessions, dicts, now, next_id, appended, held>>
    /\ last' = Call("sw_start", NoSid, FALSE)

\* One step of the for loop over self.sessions.items().  The iterator raises
\* RuntimeError (dictionary changed size during iteration) when the store
\* has another size than at the start; the method does not catch it.  At
\* the end of the store the loop is left.
SwScan(t) ==
    LET th   == threads[t]
        rest == DOMAIN sessions \ th.scanned
        s    == CHOOSE x \in rest : \A y \in rest : x <= y
        raised == Cardinality(DOMAIN sessions) # th.size
    IN
    /\ th.pc = "sw_scan"
    /\ threads' = [threads EXCEPT ![t] =
                       IF raised THEN IdleThread
                       ELSE IF rest = {} THEN [@ EXCEPT !.pc = "sw_delete"]
                       ELSE [@ EXCEPT
                                !.scanned = @ \cup {s},
                                !.expired_sessions =
                                    IF Expired(sessions[s], th.current_time)
                                    THEN Append(@, s) ELSE @]]
    /\ UNCHANGED <<sessions, dicts, now, next_id, appended, held>>
    /\ last' = [Call("sw_scan", NoSid, FALSE) EXCEPT !.failed = raised]

\* One step of the loop over expired_sessions, clear_session of an id, or
\* the return after it.
SwDelete(t) ==
    LET th == threads[t] IN
    /\ th.pc = "sw_delete"
    /\ sessions' = IF th.expired_sessions = <<>> THEN sessions
                   ELSE clear_session(sessions, Head(th.expired_sessions))
    /\ dicts' = Collect(dicts, sessions', held)
    /\ threads' = [threads EXCEPT ![t] =
                       IF th.expired_sessions = <<>> THEN IdleThread
                       ELSE [@ EXCEPT !.expired_sessions = Tail(@)]]
    /\ last' = Call(IF th.expired_sessions = <<>> THEN "sw_return"
                    ELSE "sw_delete", NoSid, FALSE)
    /\ UNCHANGED <<now, next_id, appended, held>>

----------------------------------------------------------------------------
(* Specifications *)

Contents == {"hello"}
Limits   == {None, Some(0), Some(1), Some(2)}

\* The store's whole life cycle as the clock runs: sessions are created,
\* fetched, cleared and swept under every id; the methods that go through
\* get_session are called with the ids of WriterIds, which receive at most
\* one message or analysis.
WriterIds == {1}

Next ==
    \/ Tick
    \/ CreateSession
    \/ \E s \in SessionIds : GetSession(s)
    \/ \E s \in WriterIds, content \in Contents :
           /\ appended[s] = <<>>
           /\ AddMessage(s, "user", content)
    \/ \E s \in WriterIds : GetConversationHistory(s, None)
    \/ \E s \in WriterIds, summary \in Summaries :
           /\ appended[s] = <<>>
           /\ StoreVideoAnalysis(s, <<>>, summary, NoGuidelines)
    \/ \E s \in WriterIds : GetVideoAnalysis(s)
    \/ \E s \in WriterIds : UpdateContext(s, "flag", "v1")
    \/ \E s \in WriterIds : GetContext(s)
    \/ \E s \in WriterIds : ExportSession(s)
    \/ \E s \in SessionIds : ClearSession(s)
    \/ \E s \in SessionIds : ApiClearSession(s)
    \/ ClearExpiredSessions
    \/ GetActiveSessionsCount

Spec == Init /\ [][Next]_vars

\* The history of session 1: messages of every role and analysis notices,
\* appended while the session is live, and reads with every limit.
NextHistory ==
    \/ CreateSession
    \/ \E role \in Roles, content \in Contents : AddMessage(1, role, content)
    \/ \E summary \in Summaries : StoreVideoAnalysis(1, <<>>, summary, NoGuidelines)
    \/ \E limit \in Limits : GetConversationHistory(1, limit)

SpecHistory == Init /\ [][NextHistory]_vars

\* Video analyses: every list of events, stored directly or by an upload.
NextAnalysis ==
    \/ CreateSession
    \/ \E events \in EventLists, summary \in Summaries :
           /\ Len(appended[1]) < MaxAnalyses
           /\ StoreVideoAnalysis(1, events, summary, NoGuidelines)
    \/ \E session_id \in {None} \cup {Some(s) : s \in SessionIds},
          valid, chat_ok \in BOOLEAN, reported \in EventLists,
          summary \in Summaries :
           /\ session_id # None => Len(appended[session_id[1]]) < MaxAnalyses
           /\ UploadVideo(session_id, valid, VideoFrames, reported, chat_ok,
                          summary)
    \/ \E s \in SessionIds : GetVideoAnalysis(s)
    \/ \E s \in SessionIds : ClearSession(s)

SpecAnalysis == Init /\ [][NextAnalysis]_vars

\* Session contexts: every key and value, the caller's own writes to the
\* mapping it was given, and sessions that are cleared meanwhile.
NextContext ==
    \/ CreateSession
    \/ \E s \in SessionIds, key \in Keys, value \in Values :
           UpdateContext(s, key, value)
    \/ \E s \in SessionIds : GetContext(s)
    \/ \E key \in Keys, value \in Values : CallerWrites(key, value)
    \/ \E s \in SessionIds : ClearSession(s)

SpecContext == Init /\ [][NextContext]_vars

\* The chat model answers at once or when more than the timeout has passed.
Delays == {0, session_timeout + 1}

\* The HTTP get and delete of sessions, as the clock runs.

NextApi ==
    \/ Tick
    \/ CreateSession
    \/ \E s \in SessionIds : ApiGetSession(s)
    \/ \E s \in SessionIds : ApiClearSession(s)

SpecApi == Init /\ [][NextApi]_vars

\* Chat requests, with and without a session id, as the clock runs; a
\* request with an id is the first turn of that session.
NextChat ==
    \/ Tick
    \/ CreateSession
    \/ \E session_id \in {None} \cup {Some(s) : s \in SessionIds},
          message \in ChatMessages, model_ok \in BOOLEAN, reply \in Replies,
          delay \in Delays :
           /\ session_id # None => appended[session_id[1]] = <<>>
           /\ Chat(session_id, message, model_ok, reply, delay)

SpecChat == Init /\ [][NextChat]_vars

\* Uploads, with and without a session id, of files of every kind: an
\* unsupported suffix, a file without a frame, no event, events in and out of
\* order, with and without a violation.
UploadFrames  == {<<>>, VideoFrames}
UploadReports ==
    {<<>>, <<Ev(1, "b", "high", TRUE)>>,
     <<Ev(2, "a", "medium", FALSE), Ev(1, "b", "high", TRUE)>>}

NextUpload ==
    \/ Tick
    \/ CreateSession
    \/ \E session_id \in {None} \cup {Some(s) : s \in SessionIds},
          valid, chat_ok \in BOOLEAN, frames \in UploadFrames,
          reported \in UploadReports, summary \in Summaries :
           /\ session_id # None => appended[session_id[1]] = <<>>
           /\ UploadVideo(session_id, valid, frames, reported, chat_ok, summary)
    \/ \E s \in SessionIds : GetVideoAnalysis(s)

SpecUpload == Init /\ [][NextUpload]_vars

\* Queries on the analysis of session 1, attached by store_video_analysis
\* with the report of generate_summary or with an empty one, or by an upload
\* to it.
QueryTypes      == {"event_at_time", "violation_details", "event_summary",
                    "other"}
QueryTimestamps == {1, 4}
QueryEventTypes == {"", "violation"}

NextQuery ==
    \/ Tick
    \/ CreateSession
    \/ \E events \in UploadReports, summary \in Summaries :
           \E guidelines \in
                  {NoGuidelines,
                   generate_summary(events, TRUE, summary).guidelines} :
               /\ appended[1] = <<>>
               /\ StoreVideoAnalysis(1, events, summary, guidelines)
    \/ \E chat_ok \in BOOLEAN, reported \in UploadReports,
          summary \in Summaries :
           /\ appended[1] = <<>>
           /\ UploadVideo(Some(1), TRUE, VideoFrames, reported, chat_ok,
                          summary)
    \/ \E query_type \in QueryTypes, timestamp \in QueryTimestamps,
          event_type \in QueryEventTypes :
           AnswerSpecificQuery(1, query_type, timestamp, event_type)

SpecQuery == Init /\ [][NextQuery]_vars

\* add_message called on session 1 by two threads whose steps alternate in
\* every way.
ThreadRoles == {"user", "system"}

NextThreads ==
    \/ CreateSession
    \/ \E t \in ThreadIds, role \in ThreadRoles, content \in Contents :
           AmAppend(t, 1, role, content)
    \/ \E t \in ThreadIds : AmCheck(t)
    \/ \E t \in ThreadIds : AmSystem(t)
    \/ \E t \in ThreadIds : AmRecent(t)
    \/ \E t \in ThreadIds : AmAssign(t)

SpecThreads == Init /\ [][NextThreads]_vars

\* create_session and clear_expired_sessions run by two threads whose steps
\* alternate in every way, as the clock runs.  create_session has no call
\* that blocks: its clock reading, the insertion and the return fall in one
\* tick.
NextRace ==
    \/ (\A t \in ThreadIds : threads[t].pc # "cs_insert") /\ Tick
    \/ \E t \in ThreadIds : CsBuild(t)
    \/ \E t \in ThreadIds : CsInsert(t)
    \/ \E t \in ThreadIds : SwStart(t)
    \/ \E t \in ThreadIds : SwScan(t)
    \/ \E t \in ThreadIds : SwDelete(t)

SpecRace == Init /\ [][NextRace]_vars

\* The application serving requests for ever: uploads and chats that create
\* their session or name a session of ServedIds, and the HTTP get and delete
\* of those sessions, as the clock runs.  main.py starts no task and has no
\* endpoint that calls clear_expired_sessions or get_active_sessions_count.
\* The application keeps serving: a request that can be served is served.
ServedIds == {2}

Requests ==
    \/ \E session_id \in {None} \cup {Some(s) : s \in ServedIds} :
           /\ session_id # None => appended[session_id[1]] = <<>>
           /\ UploadVideo(session_id, TRUE, VideoFrames, <<>>, TRUE, "summary")
    \/ \E session_id \in {None} \cup {Some(s) : s \in ServedIds} :
           /\ session_id # None => appended[session_id[1]] = <<>>
           /\ Chat(session_id, "hello", TRUE, "reply", 0)
    \/ \E s \in ServedIds : ApiGetSession(s)
    \/ \E s \in ServedIds : ApiClearSession(s)

NextServe ==
    \/ Tick
    \/ Requests

SpecServe == Init /\ [][NextServe]_vars /\ WF_vars(Requests)

\* Analyses stored one after the other on session 1, without events or with
\* one, with the report of generate_summary or an empty one, and read back,
\* as the clock runs.
OverwriteReports == {<<>>, <<Ev(1, "b", "high", TRUE)>>}

NextOverwrite ==
    \/ Tick
    \/ CreateSession
    \/ \E events \in OverwriteReports, summary \in Summaries :
           \E guidelines \in
                  {NoGuidelines,
                   generate_summary(events, TRUE, summary).guidelines} :
               /\ Len(appended[1]) < MaxOverwrites
               /\ StoreVideoAnalysis(1, events, summary, guidelines)
    \/ \E s \in SessionIds : GetVideoAnalysis(s)

SpecOverwrite == Init /\ [][NextOverwrite]_vars

\* Chat turns on sessions of every state: absent, new, and session 1 with a
\* history of messages of every role and analysis notices, longer and
\* shorter than the limit of the prompt.
NextPrompt ==
    \/ \E content \in Contents : AddMessage(1, "system", content)
    \/ \E events \in OverwriteReports, summary \in Summaries :
           /\ appended[1] = <<>>
           /\ StoreVideoAnalysis(1, events, summary,
                                 generate_summary(events, TRUE, summary).guidelines)
    \/ \E session_id \in {None, Some(1)}, model_ok \in BOOLEAN,
          reply \in Replies :
           Chat(session_id, "hello", model_ok, reply, 0)

SpecPrompt == Init /\ [][NextPrompt]_vars

\* The analysis of one batch of frames, for every batch and every reply of
\* the vision model.
NextBatch ==
    \E frames \in FrameBatches, reply \in VisionReplies :
        AnalyzeFrameBatch(frames, reply)

SpecBatch == Init /\ [][NextBatch]_vars

----------------------------------------------------------------------------
(* Properties.  A step is recognised by the call it leaves in last: only the
   action of a method writes that method's name there. *)

NonSystem(msgs) == SelectSeq(msgs, IsNonSystem)
System(msgs)    == SelectSeq(msgs, IsSystem)

\* The messages of a list, each named by its place in the order of appends.
Ns(msgs) == {msgs[i].n : i \in 1..Len(msgs)}

\* seq's last k elements, for 0 <= k <= Len(seq)
LastK(seq, k) == SubSeq(seq, Len(seq) - k + 1, Len(seq))

History(s) == sessions[s].conversation_history
Context(s) == dicts[sessions[s].context]

\* msgs stand in the order in which they were appended
InAppendOrder(msgs) ==
    \A i, j \in 1..Len(msgs) : i < j => msgs[i].n < msgs[j].n

AscendingTimestamps(events) ==
    \A i, j \in 1..Len(events) :
        i < j => events[i].timestamp <= events[j].timestamp

\* Of the messages appended, those the trimming policy retains however the
\* calls follow each other: every system message, and the message appended
\* last, which is among the last 2*max_history of every list it is in.
PolicyKeeps(msgs) ==
    {msgs[i].n : i \in {j \in 1..Len(msgs) : IsSystem(msgs[j]) \/ j = Len(msgs)}}

IsNotice(m) == m.role = "system" /\ m.metadata = AnalysisMetadata
Notices(msgs) == SelectSeq(msgs, IsNotice)

AllIdle == \A t \in ThreadIds : threads[t].pc = "idle"

AccessOps ==
    {"get_session", "add_message", "get_conversation_history",
     "store_video_analysis", "get_video_analysis", "update_context",
     "get_context"}

\* C1: get_session on a session that has been idle for more than the timeout
\* returns None and removes the record from the store; from then on the id
\* stays out of the store and every get_session with it returns None, at
\* whatever time it is called.
C1_ExpiredGetEvicts ==
    [][\A s \in SessionIds :
          /\ (/\ last'.op = "get_session" /\ last'.sid = s
              /\ s \in DOMAIN sessions
              /\ now - sessions[s].last_activity > session_timeout)
             => (~last'.found /\ s \notin DOMAIN sessions')
          /\ (s < next_id /\ s \notin DOMAIN sessions)
             => /\ s \notin DOMAIN sessions'
                /\ (last'.op = "get_session" /\ last'.sid = s) => ~last'.found
      ]_vars

\* A get_session has just evicted the session it was asked for.
C1_Witness ==
    /\ last.op = "get_session" /\ ~last.found
    /\ last.removed = {last.sid}
    /\ last.sid \notin DOMAIN sessions

\* C2: every access to a session whose idle time is at most the timeout
\* (get_session and the six methods that go through it) finds the session,
\* keeps it in the store and sets last_activity to the time of the access;
\* so a session is present at every access made no later than its last
\* access plus the timeout, however long ago it was created.
C2_AccessRefreshes ==
    [][\A s \in SessionIds :
          (/\ last'.op \in AccessOps /\ last'.sid = s
           /\ s \in DOMAIN sessions
           /\ now - sessions[s].last_activity <= session_timeout)
          => /\ last'.found
             /\ s \in DOMAIN sessions'
             /\ sessions'[s].last_activity = now'
      ]_vars

\* An access other than get_session has found a session that was created
\* longer ago than the timeout.
C2_Witness ==
    /\ last.op \in AccessOps \ {"get_session"} /\ last.found
    /\ last.sid \in DOMAIN sessions
    /\ sessions[last.sid].last_activity = now
    /\ now - sessions[last.sid].created_at > session_timeout

C5_AppendOrderKept ==
    /\ \A s \in DOMAIN sessions : InAppendOrder(History(s))
    /\ last.op = "get_conversation_history" => InAppendOrder(last.history)

C7_EventsReadSorted ==
    (last.op = "get_video_analysis" /\ last.analysis # None)
        => AscendingTimestamps(last.analysis[1].events)

\* C8: clear_session, called directly or by the HTTP delete, removes the
\* record of the id if there is one and nothing else: every other record and
\* its context stay as they were, the HTTP delete answers 200 whether or not
\* the id was present, and a second delete of the id changes nothing.
C8_ClearIdempotent ==
    [][\A s \in SessionIds :
          (last'.op \in {"clear_session", "api_clear_session"} /\ last'.sid = s)
          => /\ DOMAIN sessions' = DOMAIN sessions \ {s}
             /\ \A x \in DOMAIN sessions' :
                    sessions'[x] = sessions[x] /\ dicts'[x] = dicts[x]
             /\ last'.op = "api_clear_session" => last'.status = 200
             /\ clear_session(sessions', s) = sessions'
      ]_vars

\* The HTTP delete has answered 200 for an id that had been removed before,
\* while another session is in the store.
C8_Witness ==
    /\ last.op = "api_clear_session" /\ ~last.found /\ last.status = 200
    /\ last.sid < next_id
    /\ DOMAIN sessions # {}

\* C9: update_context on a live session maps the key to the value written
\* and leaves every other key of the context as it was, so of two writes to
\* one key only the second is readable; get_context returns the context
\* with the value written by the update_context just before it.
C9_ContextLastWriteWins ==
    [][\A s \in SessionIds :
          /\ (last'.op = "update_context" /\ last'.sid = s /\ last'.found)
             => LET old == Context(s)
                    new == dicts'[sessions'[s].context]
                IN  /\ DOMAIN new = DOMAIN old \cup {last'.key}
                    /\ new[last'.key] = last'.value
                    /\ \A k \in DOMAIN old \ {last'.key} : new[k] = old[k]
          /\ (last'.op = "get_context" /\ last'.sid = s /\ last'.found)
             => /\ held'.seen = Context(s)
                /\ (last.op = "update_context" /\ last.sid = s /\ last.found)
                   => held'.seen[last.key] = last.value
      ]_vars

\* An update_context has replaced the value of a key by another value while
\* the context holds a second key.
C9_Witness ==
    /\ last.op = "update_context" /\ last.found
    /\ last.sid \in DOMAIN sessions
    /\ last.key \in DOMAIN last.before
    /\ last.before[last.key] # last.value
    /\ Context(last.sid)[last.key] = last.value
    /\ DOMAIN last.before # {last.key}

\* C10 as stated: the mapping get_context returned is a snapshot: a later
\* update_context does not change the mapping the caller holds, and the
\* caller's write to that mapping does not change any session's context.
C10_ContextSnapshot ==
    [][/\ (last'.op = "update_context" /\ held.ref # NoRef)
          => dicts'[held.ref] = dicts[held.ref]
       /\ last'.op = "caller_writes"
          => \A s \in DOMAIN sessions : dicts'[sessions[s].context] = Context(s)
      ]_vars

\* C11: create_session adds exactly one record, under an id that no session
\* created before it had, whether that session is still in the store or
\* not; the new record has an empty history, no video analysis, an empty
\* context and last_activity >= created_at; every record that was in the
\* store, and its context, is unchanged.
C11_CreateFresh ==
    [][last'.op = "create_session"
       => LET id == last'.sid IN
          /\ id \notin 1..(next_id - 1)
          /\ id \notin DOMAIN sessions
          /\ DOMAIN sessions' = DOMAIN sessions \cup {id}
          /\ sessions'[id].id = id
          /\ sessions'[id].conversation_history = <<>>
          /\ sessions'[id].video_analysis = None
          /\ dicts'[sessions'[id].context] = EmptyDict
          /\ sessions'[id].last_activity >= sessions'[id].created_at
          /\ sessions'[id].created_at = now
          /\ \A x \in DOMAIN sessions :
                 /\ sessions'[x] = sessions[x]
                 /\ sessions'[x].context # sessions'[id].context
                 /\ dicts'[sessions'[x].context] = Context(x)
      ]_vars

\* A session has just been created, at a later time than the first one,
\* which has been removed.
C11_Witness ==
    /\ last.op = "create_session"
    /\ last.sid \in DOMAIN sessions
    /\ sessions[last.sid].created_at > 0
    /\ \E x \in 1..(next_id - 1) : x \notin DOMAIN sessions

\* C12: clear_expired_sessions removes exactly the sessions idle for longer
\* than the timeout at the time of the sweep, which are the sessions of the
\* store that get_session would report absent at that time; every other
\* session stays with its record, last_activity included, unchanged.
C12_SweepExactlyExpired ==
    [][last'.op = "clear_expired_sessions"
       => /\ DOMAIN sessions' =
                 {s \in DOMAIN sessions :
                      now - sessions[s].last_activity <= session_timeout}
          /\ last'.removed =
                 {s \in DOMAIN sessions : ~get_session(sessions, s, now).found}
          /\ \A s \in DOMAIN sessions' :
                 sessions'[s] = sessions[s] /\ dicts'[s] = dicts[s]
      ]_vars

\* A sweep has removed a session and kept one that was idle for exactly the
\* timeout.
C12_Witness ==
    /\ last.op = "clear_expired_sessions"
    /\ last.removed # {}
    /\ \E s \in DOMAIN sessions :
           now - sessions[s].last_activity = session_timeout

\* C13 as stated: clear_expired_sessions returns the number of sessions it
\* removed, 0 when none was expired.
C13_SweepReturnsCount ==
    last.op = "clear_expired_sessions"
        => last.ret = Some(Cardinality(last.removed))

\* C14: get_active_sessions_count returns the number of sessions idle for at
\* most the timeout at the time of the call; when it returns no session of
\* the store is expired, and the sessions that stay keep their records,
\* last_activity included.
C14_CountActive ==
    [][last'.op = "get_active_sessions_count"
       => LET active == {s \in DOMAIN sessions :
                            now - sessions[s].last_activity <= session_timeout}
          IN  /\ last'.ret = Some(Cardinality(active))
              /\ DOMAIN sessions' = active
              /\ \A s \in DOMAIN sessions' : ~Expired(sessions'[s], now')
              /\ \A s \in DOMAIN sessions' : sessions'[s] = sessions[s]
      ]_vars

\* A count of one has been returned while two sessions were in the store,
\* and the session that stays has been idle for some time.
C14_Witness ==
    /\ last.op = "get_active_sessions_count"
    /\ last.ret = Some(1)
    /\ Cardinality(last.removed) = 1
    /\ \E s \in DOMAIN sessions : sessions[s].last_activity < now

\* C15 as stated: the HTTP get of a session with an id that is absent or
\* expired ends with status 404, never with 500.
C15_AbsentIs404 ==
    (last.op = "api_get_session" /\ ~last.found) => last.status = 404

\* C16: each method of the store that takes an id (get_session, add_message,
\* get_conversation_history, store_video_analysis, get_video_analysis,
\* update_context, get_context, export_session), called with an id that is
\* absent or expired, returns its absent value (None, [] or a new {});
\* it adds no record, appends no message, removes the record of the id if
\* it was expired, and leaves every other record and context unchanged.
C16_AbsentIsNoError ==
    [][\A s \in SessionIds :
          (/\ last'.op \in AccessOps \cup {"export_session"} /\ last'.sid = s
           /\ (s \in DOMAIN sessions
                   => now - sessions[s].last_activity > session_timeout))
          => /\ ~last'.found
             /\ last'.history = <<>>
             /\ last'.analysis = None
             /\ last'.ret = None
             /\ last'.op = "get_context"
                    => held'.ref = FreshDict /\ held'.seen = EmptyDict
             /\ DOMAIN sessions' = DOMAIN sessions \ {s}
             /\ appended' = appended
             /\ \A x \in DOMAIN sessions' :
                    sessions'[x] = sessions[x] /\ dicts'[x] = dicts[x]
      ]_vars

\* A message written to an expired session has been dropped and the session
\* removed, while another session is in the store.
C16_Witness ==
    /\ last.op = "add_message" /\ ~last.found
    /\ last.removed = {last.sid}
    /\ appended[last.sid] = <<>>
    /\ DOMAIN sessions # {}

\* C17 as stated: when the chat model call fails in a chat turn on a live
\* session, the session's history and context after the turn are those
\* before it; the user message of the turn is not in the history.
C17_FailedTurnNoMutation ==
    [][(/\ last'.op = "chat" /\ last'.failed
        /\ ~last'.created /\ last'.found)
       => LET s == last'.sid IN
          /\ s \in DOMAIN sessions'
          /\ sessions'[s].conversation_history = History(s)
          /\ dicts'[sessions'[s].context] = Context(s)
      ]_vars

\* C18: a chat request never ends with an error: it is answered with
\* status 200 and the id of its session, the id it was given or the one it
\* created; when the chat model call fails the text of the answer is the
\* fixed apology.
C18_FailureIsApology ==
    last.op = "chat"
        => /\ last.status = 200
           /\ last.sid # NoSid
           /\ last.created => last.sid = next_id - 1
           /\ last.failed => last.reply = Apology
           /\ ~last.failed => last.reply \in Replies

\* A chat request that created its session has been answered with the
\* apology after the chat model call failed late.
C18_Witness ==
    /\ last.op = "chat" /\ last.failed /\ last.created
    /\ last.status = 200 /\ last.reply = Apology
    /\ sessions[last.sid].last_activity < now

\* C19 as stated: a chat request without a session id creates exactly one
\* session and returns its id; when the chat model call succeeds the
\* session is in the store on return and its history is the user message
\* followed by the assistant's reply.
C19_ChatCreatesSession ==
    [][(last'.op = "chat" /\ last'.created)
       => LET s == last'.sid IN
          /\ s \notin DOMAIN sessions
          /\ next_id' = next_id + 1
          /\ DOMAIN sessions' \subseteq DOMAIN sessions \cup {s}
          /\ ~last'.failed
             => /\ s \in DOMAIN sessions'
                /\ Len(sessions'[s].conversation_history) = 2
                /\ sessions'[s].conversation_history[1].role = "user"
                /\ sessions'[s].conversation_history[1].content = last'.message
                /\ sessions'[s].conversation_history[2].role = "assistant"
                /\ sessions'[s].conversation_history[2].content = last'.reply
      ]_vars

\* C20 as stated: when the vision model's reply for a batch cannot be
\* decoded as a list of events (no JSON array in the text, invalid JSON, or
\* JSON of the wrong shape), the batch yields exactly one event per frame,
\* of event_type scene, severity low, no guideline violation and the
\* frame's timestamp.
C20_FallbackPerFrame ==
    (/\ last.op = "_analyze_frame_batch"
     /\ last.kind \in {"no_array", "invalid_json", "wrong_shape"})
    => /\ Len(last.events) = Len(last.frames)
       /\ \A i \in 1..Len(last.frames) :
              /\ last.events[i].event_type = "scene"
              /\ last.events[i].severity = "low"
              /\ last.events[i].guideline_violation = FALSE
              /\ last.events[i].timestamp = last.frames[i].timestamp

\* C21 as stated: when summary generation fails after events were detected,
\* the upload still answers 200 with all detected events and the failure
\* text in place of the summary, and the session holds that analysis with
\* all the events.
C21_SummaryFailureKeepsEvents ==
    (last.op = "upload_video" /\ last.failed)
    => /\ last.status = 200
       /\ last.events # <<>>
       /\ last.analysis # None
       /\ last.analysis[1].events = last.events
       /\ last.analysis[1].summary = "Error generating summary"
       /\ last.sid \in DOMAIN sessions
       /\ sessions[last.sid].video_analysis # None
       /\ sessions[last.sid].video_analysis[1].events = last.events
       /\ sessions[last.sid].video_analysis[1].summary
              = "Error generating summary"

\* C27 as stated: an upload of a file with an unsupported suffix, or of a
\* video from which no frame is extracted, is rejected, and the store is
\* left as it was: no session is created and no session's analysis, history
\* or last_activity changes.
C27_MalformedUploadRejected ==
    [][(/\ last'.op = "upload_video"
        /\ last'.kind \in {"invalid_format", "no_frames"})
       => /\ last'.status # 200
          /\ sessions' = sessions
          /\ next_id' = next_id
      ]_vars

\* C28 as stated: after an upload has answered 200 with session id s, created
\* by the call or supplied by the caller, the store contains s and its
\* video analysis is the events, summary and guideline report of the
\* response.
C28_UploadedAnalysisStored ==
    (last.op = "upload_video" /\ last.status = 200)
    => /\ last.sid \in DOMAIN sessions
       /\ sessions[last.sid].video_analysis = last.analysis

\* C29 as stated: get_conversation_history on a live session returns the
\* whole history when no limit is given, and for a limit k >= 0 exactly the
\* trailing min(k, length) entries in history order (none for k = 0); the
\* stored history is left as it was.
C29_ReadTrailingLimit ==
    [][(last'.op = "get_conversation_history" /\ last'.found)
       => LET s == last'.sid
              h == sessions[s].conversation_history
          IN  /\ sessions'[s].conversation_history = h
              /\ last'.count < 0 => last'.history = h
              /\ last'.count >= 0
                 => last'.history = LastK(h, Min(last'.count, Len(h)))
      ]_vars

\* C24 as stated: a session is not evicted in the middle of a mutation of
\* several steps.  Once a chat turn has appended its user message, the
\* session is present when the reply is appended, however long the model
\* call took, and the reply goes to the same record; once
\* store_video_analysis has set the analysis, its system message is appended
\* to the same record.
C24_NoEvictionMidMutation ==
    [][/\ (last'.op = "chat" /\ last'.found /\ ~last'.failed)
          => LET s == last'.sid IN
             /\ s \in DOMAIN sessions'
             /\ s \in DOMAIN sessions
                => sessions'[s].created_at = sessions[s].created_at
             /\ sessions'[s].conversation_history # <<>>
             /\ LET m == sessions'[s].conversation_history[
                             Len(sessions'[s].conversation_history)]
                IN  m.role = "assistant" /\ m.content = last'.reply
       /\ (last'.op = "store_video_analysis" /\ last'.found)
          => LET s == last'.sid IN
             /\ s \in DOMAIN sessions'
             /\ sessions'[s].created_at = sessions[s].created_at
             /\ sessions'[s].video_analysis = last'.analysis
             /\ sessions'[s].conversation_history # <<>>
             /\ LET m == sessions'[s].conversation_history[
                             Len(sessions'[s].conversation_history)]
                IN  m.role = "system" /\ m.metadata = AnalysisMetadata
      ]_vars

\* C30 as stated: a successful chat turn on a live session appends exactly
\* two messages, the user message before the model is called and the reply
\* after it has returned, and on return they are the last two entries of the
\* history in that order.
C30_TurnAppendsUserThenReply ==
    [][(last'.op = "chat" /\ last'.found /\ ~last'.failed)
       => LET s == last'.sid
              k == Len(appended[s])
          IN  /\ Len(appended'[s]) = k + 2
              /\ appended'[s][k + 1].role = "user"
              /\ appended'[s][k + 1].content = last'.message
              /\ appended'[s][k + 1].timestamp = now
              /\ appended'[s][k + 2].role = "assistant"
              /\ appended'[s][k + 2].content = last'.reply
              /\ appended'[s][k + 2].timestamp = now'
              /\ s \in DOMAIN sessions'
              /\ Len(sessions'[s].conversation_history) >= 2
              /\ LastK(sessions'[s].conversation_history, 2)
                     = SubSeq(appended'[s], k + 1, k + 2)
      ]_vars

\* C26 as stated: after an analysis whose events include a flagged guideline
\* violation at timestamp t is attached to a live session, the
\* violation_details query on the session answers with a line that carries
\* t and that violation's description, whatever guidelines report was
\* attached with the events, an empty one included.
C26_ViolationDetailsReferenceEvent ==
    (/\ last.op = "answer_specific_query"
     /\ last.kind = "violation_details"
     /\ last.found
     /\ last.analysis # None)
    => \A i \in 1..Len(last.analysis[1].events) :
           LET e == last.analysis[1].events[i] IN
           e.guideline_violation
           => \E j \in 1..Len(last.lines) :
                  /\ last.lines[j].timestamp = e.timestamp
                  /\ last.lines[j].description = e.description

\* C25: a session holds at most one video analysis.  A new session has none;
\* the field changes only when store_video_analysis (directly or in an
\* upload) reaches the live session, and then to exactly the events, summary
\* and guidelines of that call; get_video_analysis on a live session returns
\* the field as it is, so it returns the most recent call's analysis with
\* nothing of an earlier one, and None before the first call.
C25_LatestAnalysisOnly ==
    [][\A s \in DOMAIN sessions' :
          LET stored == (/\ last'.op \in {"store_video_analysis", "upload_video"}
                         /\ last'.sid = s /\ last'.found /\ last'.analysis # None)
          IN  /\ stored => sessions'[s].video_analysis = last'.analysis
              /\ (~stored /\ s \in DOMAIN sessions)
                 => sessions'[s].video_analysis = sessions[s].video_analysis
              /\ (~stored /\ s \notin DOMAIN sessions)
                 => sessions'[s].video_analysis = None
              /\ (last'.op = "get_video_analysis" /\ last'.sid = s)
                 => /\ last'.found
                    /\ last'.analysis = sessions[s].video_analysis
      ]_vars

\* get_video_analysis has returned the second of two different analyses
\* stored on a session.
C25_Witness ==
    /\ last.op = "get_video_analysis" /\ last.found
    /\ Len(appended[last.sid]) = 2
    /\ appended[last.sid][1].content # appended[last.sid][2].content
    /\ last.analysis # None
    /\ AnalysisNotice(last.analysis[1].events, last.analysis[1].summary)
           = appended[last.sid][2].content

\* C22 as stated: when add_message calls on one live session run
\* concurrently, at any interleaving of their steps, no append is lost: once
\* the calls have returned, every appended message that the trimming policy
\* retains is in the history exactly once.
C22_NoLostAppend ==
    AllIdle
    => \A s \in DOMAIN sessions :
           \A n \in PolicyKeeps(appended[s]) :
               Cardinality({i \in 1..Len(History(s)) : History(s)[i].n = n}) = 1

\* C23: with a positive timeout, a session that is being created while
\* clear_expired_sessions runs is never removed by that sweep: at every
\* interleaving of the steps of the two, create_session leaves its session
\* in the store, and a session created less than the timeout ago stays in
\* the store at every step.
C23_FreshSessionNotSwept ==
    [][/\ last'.op = "cs_insert" => last'.sid \in DOMAIN sessions'
       /\ \A s \in DOMAIN sessions :
              now' - sessions[s].created_at < session_timeout
              => s \in DOMAIN sessions'
      ]_vars

\* A sweep has just removed an expired session while the store holds a
\* session that was created after the sweep had gone through the store.
C23_Witness ==
    /\ session_timeout > 0
    /\ last.op = "sw_delete" /\ last.removed # {}
    /\ \E t \in ThreadIds, s \in DOMAIN sessions :
           /\ threads[t].pc = "sw_delete"
           /\ s \notin threads[t].scanned
           /\ now - sessions[s].created_at < session_timeout

\* C34: an operation that takes a session id A (get_session, add_message,
\* get_conversation_history, store_video_analysis, get_video_analysis,
\* update_context, get_context, clear_session) leaves every other session B
\* as it was: B stays in the store, expired or not, with the same record,
\* last_activity included, and the same context; only
\* clear_expired_sessions and get_active_sessions_count remove a session
\* other than the one named.
C34_OtherSessionsUntouched ==
    [][/\ (last'.op \in AccessOps \cup {"clear_session"})
          => \A b \in DOMAIN sessions \ {last'.sid} :
                 /\ b \in DOMAIN sessions'
                 /\ sessions'[b] = sessions[b]
                 /\ dicts'[sessions'[b].context] = dicts[sessions[b].context]
       /\ (last'.op \notin {"clear_expired_sessions",
                            "get_active_sessions_count"})
          => (DOMAIN sessions \ DOMAIN sessions') \subseteq {last'.sid}
      ]_vars

\* An operation has reached its live session while another session, expired,
\* is in the store.
C34_Witness ==
    /\ last.op \in AccessOps /\ last.found
    /\ \E b \in DOMAIN sessions \ {last.sid} : Expired(sessions[b], now)

C35_ExpiredEventuallyRemoved ==
    \A s \in SessionIds :
        [](( s \in DOMAIN sessions /\ Expired(sessions[s], now))
           => <>(s \notin DOMAIN sessions))

\* C31: the message list given to the chat model is bounded and well formed
\* in every session state.  The history read for it is the last
\* history_limit entries of the session's history after the user message
\* was appended (none without a session), and its final entry is that
\* message; the prompt is one system message, then the user and assistant
\* entries of the history read without its final entry, in history order,
\* then the current user message: at most history_limit + 1 messages, the
\* message just appended once, no stored system entry.
C31_PromptWellFormed ==
    [][(last'.op = "chat")
       => LET s  == last'.sid
              p  == last'.prompt
              h  == last'.history
              k  == Len(appended[s])
              H0 == IF s \in DOMAIN sessions THEN History(s) ELSE <<>>
              H1 == IF last'.found
                    THEN Trim(Append(H0, appended'[s][k + 1]), max_history)
                    ELSE <<>>
              mid == NonSystem(SubSeq(h, 1, Len(h) - 1))
          IN  /\ h = LastK(H1, Min(history_limit, Len(H1)))
              /\ last'.found => h # <<>> /\ h[Len(h)].n = k + 1
              /\ Len(p) = Len(mid) + 2
              /\ Len(p) <= history_limit + 1
              /\ p[1].role = "system"
              /\ p[Len(p)] = [role |-> "user", content |-> last'.message]
              /\ \A i \in 1..Len(mid) :
                     /\ p[i + 1].role = mid[i].role
                     /\ p[i + 1].content = mid[i].content
                     /\ p[i + 1].role \in {"user", "assistant"}
      ]_vars

\* A chat turn on a session whose history is longer than the limit has read
\* a history with a system entry in it and sent a prompt without it.
C31_Witness ==
    /\ last.op = "chat" /\ last.found
    /\ Len(History(last.sid)) > history_limit
    /\ Len(last.history) = history_limit
    /\ \E i \in 1..Len(last.history) : last.history[i].role = "system"
    /\ Len(last.prompt) = history_limit
    /\ \A i \in 2..Len(last.prompt) : last.prompt[i].role # "system"

\* C33: a chat request that supplies the id of a session that is absent or
\* expired creates no session.  The chat model is called with a prompt of
\* the system message and the current user message alone, the request is
\* answered 200 with the supplied id and, when the model answered, its
\* reply; neither the user message nor the reply is stored, and afterwards
\* the store holds no record under the id, every other record being as it
\* was.
C33_ChatOnAbsentSession ==
    [][(last'.op = "chat" /\ ~last'.created /\ ~last'.found)
       => LET s == last'.sid IN
          /\ s \notin DOMAIN sessions'
          /\ next_id' = next_id
          /\ DOMAIN sessions' = DOMAIN sessions \ {s}
          /\ \A b \in DOMAIN sessions' : sessions'[b] = sessions[b]
          /\ appended' = appended
          /\ last'.prompt
                 = <<[role |-> "system", content |-> SystemContent(None)],
                     [role |-> "user", content |-> last'.message]>>
          /\ last'.status = 200
          /\ ~last'.failed => last'.reply \in Replies
      ]_vars

\* A chat request with the id of an expired session has been answered with
\* the model's reply, and the session has left the store.
C33_Witness ==
    /\ last.op = "chat" /\ ~last.created /\ ~last.found /\ ~last.failed
    /\ last.removed = {last.sid}
    /\ last.reply \in Replies
    /\ Len(last.prompt) = 2

====
